---- MODULE Spec2Model ----
(***************************************************************************)
(* A model of the chart annotation renderer (modules/chart_annotator.py),  *)
(* of the leverage calculator (modules/leverage_calculator.py), of the     *)
(* payload validation (modules/ai_analyzer.py), of the chat text           *)
(* (modules/signal_formatter.py) and of the bot's text and photo handlers  *)
(* (bot.py).                                                               *)
(*                                                                         *)
(* Numbers.  The calculator is modelled over the rationals: its inputs are *)
(* integers and every intermediate value is an exact fraction [n, d].      *)
(* Python's exceptions are modelled as values: an operator that models a   *)
(* function returns a record whose field exc is "none" when the function   *)
(* returns and the exception's class name when it raises.                  *)
(***************************************************************************)
EXTENDS Integers, Sequences, FiniteSets, TLC

VARIABLES
    calc,    \* the last call of LeverageCalculator.calculate_position_size
    theme,   \* an image and the outcome of ChartAnnotator._detect_chart_theme on it
    mapper,  \* a price range, two prices and their ChartAnnotator._price_to_y_position
    files,   \* the file system: what each path holds
    call,    \* the last call of annotate_chart_with_analysis
    rec,     \* the inputs and the outcome of LeverageCalculator.recommend_leverage
    valid,   \* a payload and the outcome of ChartAnalyzer._validate_result on it
    jobs,    \* the annotate calls in progress, one per concurrent handler
    chat,    \* a text message and the bot's answer to it
    sig,     \* a payload, its summary box and its chat text
    chart    \* the last call of bot.handle_chart

vars == <<calc, theme, mapper, files, call, rec, valid, jobs, chat, sig, chart>>

----------------------------------------------------------------------------
(* Exact rational arithmetic.                                              *)

Abs(x) == IF x < 0 THEN -x ELSE x

RECURSIVE Gcd(_, _)
Gcd(a, b) == IF b = 0 THEN a ELSE Gcd(b, a % b)

\* The fraction n/d (d # 0) in lowest terms with a positive denominator.
Rat(n, d) ==
    LET g == Gcd(Abs(n), Abs(d))
        s == IF d < 0 THEN -1 ELSE 1
    IN  [n |-> (s * n) \div g, d |-> (s * d) \div g]

RInt(k) == [n |-> k, d |-> 1]
RMul(a, b) == Rat(a.n * b.n, a.d * b.d)
RDiv(a, b) == Rat(a.n * b.d, a.d * b.n)
RPos(a) == a.n > 0

----------------------------------------------------------------------------
(* LeverageCalculator.calculate_position_size                              *)

MaxPrice == 4

CalcPrices == 0 .. MaxPrice
Balances == {-1000, 0, 1000}
RiskPercents == {-2, 0, 2}
Leverages == {-1, 0, 1, 10}

NoCalculation == [entry_price |-> 0, stop_loss |-> 0, account_balance |-> 0,
                  risk_percent |-> 0, leverage |-> 0,
                  position_size |-> RInt(0), required_margin |-> RInt(0),
                  profit_price |-> 0,
                  potential_profit |-> RInt(0), potential_loss |-> RInt(0),
                  rr_ratio |-> RInt(0)]

Raised(e) == [exc |-> e, value |-> NoCalculation]
Returned(v) == [exc |-> "none", value |-> v]

\* Mutant: the risk amount is multiplied by the price risk, not divided.
PositionSizeBodyTimesRisk(entry_price, stop_loss, account_balance, risk_percent, leverage) ==
    LET price_risk == Abs(entry_price - stop_loss)
    IN  IF price_risk = 0 THEN Raised("ValueError")
        ELSE
        LET risk_amount == Rat(account_balance * risk_percent, 100)
            base_position_size == RMul(risk_amount, RInt(price_risk))
            leveraged_position_size == RMul(base_position_size, RInt(leverage))
        IN  IF leverage = 0 THEN Raised("ZeroDivisionError")
            ELSE
            LET required_margin ==
                    RDiv(RMul(leveraged_position_size, RInt(entry_price)), RInt(leverage))
                long == entry_price > stop_loss
                profit_price ==
                    IF long THEN entry_price + (entry_price - stop_loss) * 2
                    ELSE stop_loss - (stop_loss - entry_price) * 2
                potential_profit ==
                    IF long THEN RMul(RInt(profit_price - entry_price), leveraged_position_size)
                    ELSE RMul(RInt(entry_price - profit_price), leveraged_position_size)
                potential_loss ==
                    IF long THEN RMul(RInt(entry_price - stop_loss), leveraged_position_size)
                    ELSE RMul(RInt(stop_loss - entry_price), leveraged_position_size)
                rr_ratio ==
                    IF RPos(potential_loss) THEN RDiv(potential_profit, potential_loss)
                    ELSE RInt(0)
            IN  Returned([entry_price |-> entry_price, stop_loss |-> stop_loss,
                          account_balance |-> account_balance,
                          risk_percent |-> risk_percent, leverage |-> leverage,
                          position_size |-> leveraged_position_size,
                          required_margin |-> required_margin,
                          profit_price |-> profit_price,
                          potential_profit |-> potential_profit,
                          potential_loss |-> potential_loss,
                          rr_ratio |-> rr_ratio])

\* The body of the try block: the exception it raises, or the result.
PositionSizeBody(entry_price, stop_loss, account_balance, risk_percent, leverage) ==
    LET price_risk == Abs(entry_price - stop_loss)
    IN  IF price_risk = 0 THEN Raised("ValueError")
        ELSE
        LET risk_amount == Rat(account_balance * risk_percent, 100)
            base_position_size == RDiv(risk_amount, RInt(price_risk))
            leveraged_position_size == RMul(base_position_size, RInt(leverage))
        IN  IF leverage = 0 THEN Raised("ZeroDivisionError")
            ELSE
            LET required_margin ==
                    RDiv(RMul(leveraged_position_size, RInt(entry_price)), RInt(leverage))
                long == entry_price > stop_loss
                profit_price ==
                    IF long THEN entry_price + (entry_price - stop_loss) * 2
                    ELSE stop_loss - (stop_loss - entry_price) * 2
                potential_profit ==
                    IF long THEN RMul(RInt(profit_price - entry_price), leveraged_position_size)
                    ELSE RMul(RInt(entry_price - profit_price), leveraged_position_size)
                potential_loss ==
                    IF long THEN RMul(RInt(entry_price - stop_loss), leveraged_position_size)
                    ELSE RMul(RInt(stop_loss - entry_price), leveraged_position_size)
                rr_ratio ==
                    IF RPos(potential_loss) THEN RDiv(potential_profit, potential_loss)
                    ELSE RInt(0)
            IN  Returned([entry_price |-> entry_price, stop_loss |-> stop_loss,
                          account_balance |-> account_balance,
                          risk_percent |-> risk_percent, leverage |-> leverage,
                          position_size |-> leveraged_position_size,
                          required_margin |-> required_margin,
                          profit_price |-> profit_price,
                          potential_profit |-> potential_profit,
                          potential_loss |-> potential_loss,
                          rr_ratio |-> rr_ratio])

\* Mutant: the except clause swallows the exception and returns a result.
CalculatePositionSizeSwallowing(entry_price, stop_loss, account_balance, risk_percent, leverage) ==
    LET r == PositionSizeBody(entry_price, stop_loss, account_balance, risk_percent, leverage)
    IN  IF r.exc # "none" THEN Returned(NoCalculation) ELSE r

\* except Exception as e: raise ValueError(...)
CalculatePositionSize(entry_price, stop_loss, account_balance, risk_percent, leverage) ==
    LET r == PositionSizeBody(entry_price, stop_loss, account_balance, risk_percent, leverage)
    IN  IF r.exc # "none" THEN Raised("ValueError") ELSE r

NoCall == [called |-> FALSE, entry_price |-> 0, stop_loss |-> 0, account_balance |-> 0,
           risk_percent |-> 0, leverage |-> 0, out |-> Raised("none")]

----------------------------------------------------------------------------
(* LeverageCalculator.recommend_leverage.  The multipliers are the exact   *)
(* decimals the source writes (1.5 is 15/10); every threshold the code     *)
(* compares a product with lies at least 1/2 away from the products, so    *)
(* the rounding of the floating-point product decides no comparison.       *)

MaxConfidence == 101

Confidences == -1 .. MaxConfidence
VolatilityLevels == {"LOW", "MEDIUM", "HIGH"}
RiskLevels == {"CONSERVATIVE", "MODERATE", "AGGRESSIVE"}

RLe(a, b) == a.n * b.d <= b.n * a.d
RLess(a, b) == a.n * b.d < b.n * a.d
RMin(a, b) == IF RLe(a, b) THEN a ELSE b

\* self.max_leverage
MaxLeverage == 100
\* self.min_leverage
MinLeverage == 1

\* self.risk_percentages
RiskPercentages(risk_level) ==
    CASE risk_level = "CONSERVATIVE" -> 1
      [] risk_level = "MODERATE" -> 2
      [] risk_level = "AGGRESSIVE" -> 5

\* Mutant: the top bracket returns 2.0 for 20.0.
CalculateBaseLeverageTypo(confidence) ==
    IF confidence >= 90 THEN 2
    ELSE IF confidence >= 80 THEN 15
    ELSE IF confidence >= 70 THEN 10
    ELSE IF confidence >= 60 THEN 5
    ELSE IF confidence >= 50 THEN 3
    ELSE 1

CalculateBaseLeverage(confidence) ==
    IF confidence >= 90 THEN 20
    ELSE IF confidence >= 80 THEN 15
    ELSE IF confidence >= 70 THEN 10
    ELSE IF confidence >= 60 THEN 5
    ELSE IF confidence >= 50 THEN 3
    ELSE 1

\* Mutant: the multipliers of LOW and HIGH are exchanged.
GetVolatilityMultiplierSwapped(volatility) ==
    CASE volatility = "LOW" -> Rat(5, 10)
      [] volatility = "MEDIUM" -> Rat(10, 10)
      [] volatility = "HIGH" -> Rat(15, 10)

GetVolatilityMultiplier(volatility) ==
    CASE volatility = "LOW" -> Rat(15, 10)
      [] volatility = "MEDIUM" -> Rat(10, 10)
      [] volatility = "HIGH" -> Rat(5, 10)

\* Mutant: the multipliers of CONSERVATIVE and AGGRESSIVE are exchanged.
GetRiskMultiplierSwapped(risk_level) ==
    CASE risk_level = "CONSERVATIVE" -> Rat(13, 10)
      [] risk_level = "MODERATE" -> Rat(10, 10)
      [] risk_level = "AGGRESSIVE" -> Rat(7, 10)

GetRiskMultiplier(risk_level) ==
    CASE risk_level = "CONSERVATIVE" -> Rat(7, 10)
      [] risk_level = "MODERATE" -> Rat(10, 10)
      [] risk_level = "AGGRESSIVE" -> Rat(13, 10)

\* The lines of a warning, by name, in the order they are joined.
HighLine == "leverage_high"
VeryHighLine == "leverage_very_high"
VolatileLine == "volatility_high"
AppropriateLine == "leverage_appropriate"

WhenTrue(cond, line) == IF cond THEN <<line>> ELSE <<>>

\* Mutant: the affirmation is appended unconditionally.
CreateWarningAlwaysAffirms(leverage, volatility) ==
    WhenTrue(RLess(RInt(20), leverage), HighLine)
        \o WhenTrue(RLess(RInt(50), leverage), VeryHighLine)
        \o WhenTrue(volatility = "HIGH", VolatileLine)
        \o <<AppropriateLine>>

\* _create_warning: the list warnings before "\n".join
CreateWarning(leverage, volatility) ==
    LET warnings == WhenTrue(RLess(RInt(20), leverage), HighLine)
                        \o WhenTrue(RLess(RInt(50), leverage), VeryHighLine)
                        \o WhenTrue(volatility = "HIGH", VolatileLine)
    IN  IF warnings = <<>> THEN <<AppropriateLine>> ELSE warnings

\* _create_reasoning: the values the text is formatted from
CreateReasoning(confidence, volatility, leverage) ==
    [confidence_text |-> IF confidence >= 80 THEN "very_high"
                         ELSE IF confidence >= 60 THEN "medium" ELSE "low",
     confidence |-> confidence, volatility |-> volatility, leverage |-> leverage]

\* The LeverageRecommendation built from the final leverage.
Recommendation(confidence, volatility, risk_level, recommended_leverage) ==
    [recommended_leverage |-> recommended_leverage,
     risk_level |-> risk_level,
     position_size_percent |-> RiskPercentages(risk_level),
     max_loss_percent |-> RiskPercentages(risk_level),
     reasoning |-> CreateReasoning(confidence, volatility, recommended_leverage),
     warning |-> CreateWarning(recommended_leverage, volatility)]

RecommendLeverage(confidence, volatility, risk_level) ==
    Recommendation(confidence, volatility, risk_level,
                   RMin(RMul(RMul(RInt(CalculateBaseLeverage(confidence)),
                                  GetVolatilityMultiplier(volatility)),
                             GetRiskMultiplier(risk_level)),
                        RInt(MaxLeverage)))

NoRecommendation == [called |-> FALSE, confidence |-> 0, volatility |-> "MEDIUM",
                     risk_level |-> "MODERATE",
                     out |-> Recommendation(0, "MEDIUM", "MODERATE", RInt(0))]

----------------------------------------------------------------------------
(* Binary64 arithmetic on thirds.                                          *)
(*                                                                         *)
(* The theme detector divides an integer by 3 and adds four such quotients *)
(* in floating point.  Every double it can produce is K/3 + E*u with       *)
(* u = 2^-54 / 3, K the exact integer numerator and E the accumulated      *)
(* rounding error, a small integer: a double of binary exponent e is a     *)
(* multiple of 2^(e-52) = 3 * 2^(e+2) * u.  A value is the pair [k, err].  *)

RECURSIVE Pow2(_)
Pow2(n) == IF n <= 0 THEN 1 ELSE 2 * Pow2(n - 1)

RECURSIVE Log2Thirds(_, _)
\* The largest e >= from with 3 * 2^e <= k (k >= 3 * 2^from).
Log2Thirds(k, from) == IF 3 * Pow2(from + 1) <= k THEN Log2Thirds(k, from + 1) ELSE from

\* floor(log2(k/3 + err*u)) + 2 for k >= 1; the + 2 keeps it non-negative.
FlExp2(k, err) ==
    IF k = 1 THEN 0
    ELSE IF k = 2 THEN 1
    ELSE LET e == Log2Thirds(k, 0)
         IN  IF k = 3 * Pow2(e) /\ err < 0 THEN e + 1 ELSE e + 2

\* Round k/3 + err*u to the nearest double, ties to even.
FlRound(k, err) ==
    IF k = 0 THEN [k |-> 0, err |-> 0]
    ELSE
    LET e2 == FlExp2(k, err)              \* exponent + 2
        ulp == 3 * Pow2(e2)               \* the spacing of doubles here, in u
        \* 2^54 mod ulp = 2^e2 * (2^(54 - e2) mod 3)
        c == IF e2 % 2 = 0 THEN 1 ELSE 2
        rem == (Pow2(e2) * ((k * c) % 3) + err) % ulp
        c2 == IF e2 % 2 = 1 THEN 1 ELSE 2
        rem2 == (Pow2(e2 + 1) * ((k * c2) % 3) + err) % (2 * ulp)
        down == [k |-> k, err |-> err - rem]
        up == [k |-> k, err |-> err + ulp - rem]
    IN  IF 2 * rem < ulp THEN down
        ELSE IF 2 * rem > ulp THEN up
        ELSE IF rem2 < ulp THEN down ELSE up

FlZero == [k |-> 0, err |-> 0]
\* n / 3 for an integer n >= 0
FlDiv3(n) == FlRound(n, 0)
FlAdd(a, b) == FlRound(a.k + b.k, a.err + b.err)
\* a / 4 < n for an integer n: the division by 4 is exact
FlQuarterLess(a, n) == a.k < 12 * n \/ (a.k = 12 * n /\ a.err < 0)

----------------------------------------------------------------------------
(* ChartAnnotator._detect_chart_theme                                      *)

Inset == 10
Midpoint == 128

\* An image: its size and its pixels, here one colour per quadrant
\* (top left, top right, bottom left, bottom right).
Quadrant(img, x, y) ==
    1 + (IF 2 * x >= img.width THEN 1 ELSE 0) + (IF 2 * y >= img.height THEN 2 ELSE 0)

\* Image.getpixel: IndexError outside the image
GetPixel(img, x, y) ==
    IF x >= 0 /\ x < img.width /\ y >= 0 /\ y < img.height
    THEN [exc |-> "none", pixel |-> img.quad[Quadrant(img, x, y)]]
    ELSE [exc |-> "IndexError", pixel |-> <<0, 0, 0>>]

Corners(img) ==
    << <<Inset, Inset>>, <<img.width - Inset, Inset>>,
       <<Inset, img.height - Inset>>, <<img.width - Inset, img.height - Inset>> >>

\* brightness = sum(pixel[:3]) / 3
Brightness(pixel) == FlDiv3(pixel[1] + pixel[2] + pixel[3])

RECURSIVE TotalBrightness(_, _, _)
\* The loop over corners[i..]: the exception raised, or the total.
TotalBrightness(img, i, total) ==
    IF i > Len(Corners(img)) THEN [exc |-> "none", total |-> total]
    ELSE LET p == GetPixel(img, Corners(img)[i][1], Corners(img)[i][2])
         IN  IF p.exc # "none" THEN [exc |-> p.exc, total |-> total]
             ELSE TotalBrightness(img, i + 1, FlAdd(total, Brightness(p.pixel)))

DarkBelow(t) == FlQuarterLess(t, Midpoint)

\* [exc, dark]: the exception raised, or whether the theme is dark
DetectChartTheme(img) ==
    LET t == TotalBrightness(img, 1, FlZero)
    IN  IF t.exc # "none" THEN [exc |-> t.exc, dark |-> FALSE]
        ELSE [exc |-> "none", dark |-> DarkBelow(t.total)]

ThemeDims == {5, 10, 11, 20, 120}
Palette == { <<0, 0, 0>>, <<255, 255, 255>>, <<128, 128, 128>>,
             <<1, 1, 2>>, <<255, 255, 254>>, <<127, 128, 128>> }
ThemeImages ==
    [width : ThemeDims, height : ThemeDims, quad : [1 .. 4 -> Palette]]

NoTheme == [called |-> FALSE, img |-> [width |-> 0, height |-> 0,
                                        quad |-> [i \in 1 .. 4 |-> <<0, 0, 0>>]],
            out |-> [exc |-> "none", dark |-> FALSE]]

----------------------------------------------------------------------------
(* ChartAnnotator._price_to_y_position                                     *)
(*                                                                         *)
(* Prices are integers (ticks); normalized is the exact fraction           *)
(* (price - min_price) / price_range and int() truncates towards zero.     *)

\* int(n / d) for d > 0
Trunc(n, d) == IF n >= 0 THEN n \div d ELSE -((-n) \div d)

Max2(a, b) == IF a >= b THEN a ELSE b
Min2(a, b) == IF a <= b THEN a ELSE b

\* Mutant: the y axis is not flipped (high prices at the bottom).
PriceToYPositionUnflipped(height, price, min_price, max_price) ==
    LET price_range == max_price - min_price
    IN  IF price_range = 0 THEN Trunc(height * 5, 10)
        ELSE
        LET g == Gcd(Abs(price - min_price), Abs(price_range))
            sgn == IF price_range < 0 THEN -1 ELSE 1
            n == (sgn * (price - min_price)) \div g
            d == (sgn * price_range) \div g
            y == Trunc(n * height * 9, d * 10) + Trunc(height * 5, 100)
        IN  Max2(10, Min2(height - 10, y))

\* Mutant: an empty price range is drawn at the bottom margin, not the middle.
PriceToYPositionFlatAtBottom(height, price, min_price, max_price) ==
    LET price_range == max_price - min_price
    IN  IF price_range = 0 THEN Max2(10, Min2(height - 10, height - Trunc(height * 5, 100)))
        ELSE
        LET \* normalized = n / d, in lowest terms with d > 0
            g == Gcd(Abs(price - min_price), Abs(price_range))
            sgn == IF price_range < 0 THEN -1 ELSE 1
            n == (sgn * (price - min_price)) \div g
            d == (sgn * price_range) \div g
            \* int(normalized * (height * 0.9)), int(height * 0.05)
            y == height - Trunc(n * height * 9, d * 10) - Trunc(height * 5, 100)
        IN  Max2(10, Min2(height - 10, y))

\* Mutant: the result is not clamped.
PriceToYPositionUnclamped(height, price, min_price, max_price) ==
    LET price_range == max_price - min_price
    IN  IF price_range = 0 THEN Trunc(height * 5, 10)
        ELSE
        LET \* normalized = n / d, in lowest terms with d > 0
            g == Gcd(Abs(price - min_price), Abs(price_range))
            sgn == IF price_range < 0 THEN -1 ELSE 1
            n == (sgn * (price - min_price)) \div g
            d == (sgn * price_range) \div g
            \* int(normalized * (height * 0.9)), int(height * 0.05)
            y == height - Trunc(n * height * 9, d * 10) - Trunc(height * 5, 100)
        IN  y

PriceToYPosition(height, price, min_price, max_price) ==
    LET price_range == max_price - min_price
    IN  IF price_range = 0 THEN Trunc(height * 5, 10)
        ELSE
        LET \* normalized = n / d, in lowest terms with d > 0
            g == Gcd(Abs(price - min_price), Abs(price_range))
            sgn == IF price_range < 0 THEN -1 ELSE 1
            n == (sgn * (price - min_price)) \div g
            d == (sgn * price_range) \div g
            \* int(normalized * (height * 0.9)), int(height * 0.05)
            y == height - Trunc(n * height * 9, d * 10) - Trunc(height * 5, 100)
        IN  Max2(10, Min2(height - 10, y))

MapHeights == {15, 20, 100, 200}
MapPrices == {0, 1, 2, 50, 51, 100, 199, 200}

NoMapping == [called |-> FALSE, height |-> 0, min_price |-> 0, max_price |-> 0,
              p1 |-> 0, p2 |-> 0, y1 |-> 0, y2 |-> 0]

----------------------------------------------------------------------------
(* Payload values.  A string is the sequence of its characters; a field    *)
(* of the payload is a string, None, or missing from the mapping.          *)

StrOf(chars) == [t |-> "str", s |-> chars]
PyNone == [t |-> "none", s |-> <<>>]
Missing == [t |-> "missing", s |-> <<>>]

Digits == <<"0", "1", "2", "3", "4", "5", "6", "7", "8", "9">>
IsDigit(c) == \E i \in 1 .. 10 : Digits[i] = c
DigitValue(c) == (CHOOSE i \in 1 .. 10 : Digits[i] = c) - 1

\* str(x) of a payload value; a missing price is read with the default 0
StrOfPrice(raw) ==
    IF raw.t = "str" THEN raw.s
    ELSE IF raw.t = "none" THEN <<"N", "o", "n", "e">>
    ELSE <<"0">>

\* .replace(',', '').replace(' ', '').strip()
IsSeparator(c) == c \in {",", " "}
Cleaned(chars) == SelectSeq(chars, LAMBDA c : ~IsSeparator(c))

RECURSIVE DigitsValue(_, _)
\* The number written by a sequence of digits, after the digits of acc.
DigitsValue(chars, acc) ==
    IF chars = <<>> THEN acc
    ELSE DigitsValue(Tail(chars), 10 * acc + DigitValue(Head(chars)))

AllDigits(chars) == \A i \in 1 .. Len(chars) : IsDigit(chars[i])

\* The position of the first "." of chars, 0 if there is none.
DotAt(chars) ==
    IF \E i \in 1 .. Len(chars) : chars[i] = "."
    THEN CHOOSE i \in 1 .. Len(chars) :
             chars[i] = "." /\ \A j \in 1 .. i - 1 : chars[j] # "."
    ELSE 0

\* The value, in hundredths, of the digits whole before and frac after the
\* decimal point (exact for at most two fraction digits); not ok when a
\* character is no digit or there is no digit at all.
DecimalValue(whole, frac) ==
    IF AllDigits(whole) /\ AllDigits(frac) /\ Len(whole) + Len(frac) > 0
    THEN [ok |-> TRUE,
          value |-> 100 * DigitsValue(whole, 0)
                        + DigitsValue(SubSeq(frac \o <<"0", "0">>, 1, 2), 0)]
    ELSE [ok |-> FALSE, value |-> 0]

\* chars split at position dot, the place of its first "." (0: none)
SplitAt(chars, dot) ==
    IF dot = 0 THEN DecimalValue(chars, <<>>)
    ELSE DecimalValue(SubSeq(chars, 1, dot - 1), SubSeq(chars, dot + 1, Len(chars)))

\* float() of an unsigned decimal: [ok, value]
UnsignedFloat(chars) == SplitAt(chars, DotAt(chars))

\* -x of a parsed value
Negated(f) == [ok |-> f.ok, value |-> -f.value]

\* float(): ValueError ([ok |-> FALSE]) for anything but a signed decimal
PyFloat(chars) ==
    IF chars # <<>> /\ Head(chars) = "-"
    THEN Negated(UnsignedFloat(Tail(chars)))
    ELSE IF chars # <<>> /\ Head(chars) = "+" THEN UnsignedFloat(Tail(chars))
    ELSE UnsignedFloat(chars)

\* ChartAnnotator._parse_price: 0 for what float() rejects
OrZero(f) == IF f.ok THEN f.value ELSE 0
ParsePrice(raw) == OrZero(PyFloat(Cleaned(StrOfPrice(raw))))

----------------------------------------------------------------------------
(* Paths and files.  A file name is its stem preceded by the "annotated_"  *)
(* prefixes it carries; a path is a directory and a file name.             *)

MaxDepth == 2

ChartsDir == "charts"
Dirs == {ChartsDir, "inbox"}
Stem == "a.jpg"
Prefix == "annotated_"

RECURSIVE Prefixed(_)
Prefixed(k) == IF k = 0 THEN <<Stem>> ELSE <<Prefix>> \o Prefixed(k - 1)

Names == {Prefixed(k) : k \in 0 .. MaxDepth}
Paths == [dir : Dirs, name : Names]
NoPath == [dir |-> "", name |-> <<>>]

\* os.path.basename
Basename(path) == path.name

\* Mutant: the output keeps the input's file name.
OutputPathUnprefixed(path) == [dir |-> ChartsDir, name |-> Basename(path)]

\* CHARTS_DIR / f"annotated_{os.path.basename(self.original_path)}"
OutputPath(path) == [dir |-> ChartsDir, name |-> <<Prefix>> \o Basename(path)]

Pixels(colour) == [q \in 1 .. 4 |-> colour]
Black == <<0, 0, 0>>
White == <<255, 255, 255>>

Absent == [kind |-> "absent", width |-> 0, height |-> 0, quad |-> Pixels(Black)]
Corrupt == [kind |-> "corrupt", width |-> 0, height |-> 0, quad |-> Pixels(Black)]
ImageFile(w, h, quad) == [kind |-> "image", width |-> w, height |-> h, quad |-> quad]

\* The images a source path may hold, and the pixels an annotated copy may
\* have at the sampled corners (the overlays and the JPEG encoding decide).
SourceFiles == {Absent, Corrupt, ImageFile(10, 10, Pixels(Black)),
                ImageFile(120, 200, Pixels(Black)), ImageFile(120, 200, Pixels(White))}
OutputQuads == {Pixels(Black), Pixels(White)}

\* Image.open(path).convert('RGB')
ImageOpen(file) ==
    IF file.kind = "absent" THEN "FileNotFoundError"
    ELSE IF file.kind = "corrupt" THEN "UnidentifiedImageError"
    ELSE IF file.kind = "truncated" THEN "OSError"
    ELSE "none"

----------------------------------------------------------------------------
(* ChartAnnotator.annotate_chart                                           *)

Biases == {StrOf(<<"L", "o", "n", "g">>), StrOf(<<"s", "h", "o", "r", "t">>),
           StrOf(<<"R", "a", "n", "g", "e">>), PyNone}
RawPrices == {Missing, StrOf(<<"a", "b", "c">>), StrOf(<<"0">>), StrOf(<<"-", "5">>),
              StrOf(<<"1", "0", "0">>), StrOf(<<"2", "6", "2">>),
              StrOf(<<"1", ",", "0", "5", "0", ".", "5">>)}
Payloads == [entry : RawPrices, sl : RawPrices, tp : RawPrices,
             bias : Biases, error : BOOLEAN]

\* The step in which the imaging library raises, if any.
Faults == {"none", "summary", "entry", "sl", "tp", "save"}

\* Mutant: the early return is left out.
NothingToAnnotateNever(entry_price, sl_price) == FALSE

\* if entry_price == 0 and sl_price == 0: return self.original_path
NothingToAnnotate(entry_price, sl_price) == entry_price = 0 /\ sl_price = 0

\* prices = [p for p in [entry_price, sl_price, tp_price] if p > 0]
ValidPrices(entry_price, sl_price, tp_price) ==
    {p \in {entry_price, sl_price, tp_price} : p > 0}

SetMin(S) == CHOOSE x \in S : \A y \in S : x <= y
SetMax(S) == CHOOSE x \in S : \A y \in S : x >= y

\* _draw_signal_text raises inside its try block: bias.lower() on None (a
\* missing bias is the string 'N/A' by then), or the imaging library.
SignalTextRaises(payload, fault) == payload.bias.t = "none" \/ fault = "summary"

\* Mutant: the target line is drawn before the stop line.
LinesOfTargetFirst(entry_price, sl_price, tp_price) ==
    << [op |-> "entry", price |-> entry_price, offset |-> 0],
       [op |-> "tp", price |-> tp_price, offset |-> 60],
       [op |-> "sl", price |-> sl_price, offset |-> 30] >>

\* The three lines in drawing order: the step, its price and its offset.
LinesOf(entry_price, sl_price, tp_price) ==
    << [op |-> "entry", price |-> entry_price, offset |-> 0],
       [op |-> "sl", price |-> sl_price, offset |-> 30],
       [op |-> "tp", price |-> tp_price, offset |-> 60] >>

\* _draw_horizontal_line: the row of the line
LineRow(height, line, lo, hi) ==
    PriceToYPosition(height, 100 * line.price, lo, hi) + line.offset

\* One more completed step.
Completed(st, op, row) == [st EXCEPT !.steps = Append(@, [op |-> op, row |-> row])]
\* A step that raised.
Failed(st, op) == [st EXCEPT !.failed = @ \cup {op}, !.raised = TRUE]

RECURSIVE DrawLines(_, _, _, _, _, _)
\* Lines i.. drawn after st = [steps, failed, raised]: the steps completed,
\* the steps that raised, and whether an exception is propagating.
DrawLines(lines, i, height, lo, hi, st) ==
    IF i > Len(lines) THEN st
    ELSE IF lines[i].price <= 0 THEN DrawLines(lines, i + 1, height, lo, hi, st)
    ELSE IF st.fault = lines[i].op THEN Failed(st, lines[i].op)
    ELSE DrawLines(lines, i + 1, height, lo, hi,
                   Completed(st, lines[i].op, LineRow(height, lines[i], lo, hi)))

\* if not analysis_data.get('error'): self._draw_signal_text(...), which
\* catches what it raises
SignalText(payload, fault) ==
    IF payload.error THEN [steps |-> <<>>, failed |-> {}, fault |-> fault, raised |-> FALSE]
    ELSE IF SignalTextRaises(payload, fault)
    THEN [steps |-> <<>>, failed |-> {"summary"}, fault |-> fault, raised |-> FALSE]
    ELSE [steps |-> <<[op |-> "summary", row |-> 10]>>, failed |-> {},
          fault |-> fault, raised |-> FALSE]

\* Mutant: the except clause returns the path of the annotated copy.
OnRenderErrorDerived(path) == OutputPath(path)

\* except Exception: return self.original_path
OnRenderError(path) == path

NoOp(path) == [ret |-> path, steps |-> <<>>, failed |-> {}, save |-> "none"]

\* self.image.save(...) and the return, after the drawing ended in st.
\* [ret, steps, failed, save]: the path returned, the steps completed, the
\* steps that raised, and whether the save ran ("done"), raised ("failed")
\* or was not reached ("none").
SaveAndReturn(path, fault, st) ==
    IF st.raised
    THEN [ret |-> OnRenderError(path), steps |-> st.steps,
          failed |-> st.failed, save |-> "none"]
    ELSE IF fault = "save"
    THEN [ret |-> OnRenderError(path), steps |-> st.steps,
          failed |-> st.failed \cup {"save"}, save |-> "failed"]
    ELSE [ret |-> OutputPath(path),
          steps |-> Append(st.steps, [op |-> "save", row |-> 0]),
          failed |-> st.failed, save |-> "done"]

\* Mutant: the range is not padded.
RenderUnpadded(img, path, payload, fault, lines, prices) ==
    SaveAndReturn(path, fault,
                  DrawLines(lines, 1, img.height, SetMin(prices) * 100, SetMax(prices) * 100,
                            SignalText(payload, fault)))

\* The rendering, over the price range [lo, hi] = [min * 0.98, max * 1.02]
\* of the valid prices (in units of 1/100 of a price unit).
Render(img, path, payload, fault, lines, prices) ==
    SaveAndReturn(path, fault,
                  DrawLines(lines, 1, img.height, SetMin(prices) * 98, SetMax(prices) * 102,
                            SignalText(payload, fault)))

\* annotate_chart once the three prices are parsed
AnnotateParsed(img, path, payload, fault, entry_price, sl_price, tp_price) ==
    IF NothingToAnnotate(entry_price, sl_price) THEN NoOp(path)
    ELSE IF ValidPrices(entry_price, sl_price, tp_price) = {} THEN NoOp(path)
    ELSE Render(img, path, payload, fault, LinesOf(entry_price, sl_price, tp_price),
                ValidPrices(entry_price, sl_price, tp_price))

AnnotateChart(img, path, payload, fault) ==
    AnnotateParsed(img, path, payload, fault, ParsePrice(payload.entry),
                   ParsePrice(payload.sl), ParsePrice(payload.tp))

----------------------------------------------------------------------------
(* annotate_chart_with_analysis: ChartAnnotator(chart_path), then          *)
(* annotate_chart.  The constructor is outside every try block.            *)

NoAnnotation == [called |-> FALSE, path |-> NoPath,
                 payload |-> [entry |-> Missing, sl |-> Missing, tp |-> Missing,
                              bias |-> PyNone, error |-> FALSE],
                 fault |-> "none", exc |-> "none", dark |-> FALSE, ret |-> NoPath,
                 steps |-> <<>>, failed |-> {}, wrote |-> NoPath]

\* ChartAnnotator.__init__: the exception raised ("none": constructed) and
\* is_dark_theme.  _load_font catches what truetype raises and is left out.
Construct(file) ==
    IF ImageOpen(file) # "none" THEN [exc |-> ImageOpen(file), dark |-> FALSE]
    ELSE DetectChartTheme(file)

\* The record of a call that raised in the constructor.
RaisedIn(path, payload, fault, made) ==
    [NoAnnotation EXCEPT !.called = TRUE, !.path = path, !.payload = payload,
                         !.fault = fault, !.exc = made.exc]

\* The record of a call that returned r, having written to the path wrote.
ReturnedFrom(path, payload, fault, made, r, wrote) ==
    [NoAnnotation EXCEPT !.called = TRUE, !.path = path, !.payload = payload,
                         !.fault = fault, !.dark = made.dark, !.ret = r.ret,
                         !.steps = r.steps, !.failed = r.failed, !.wrote = wrote]

\* The effect on the file system of annotate_chart ending in r: a completed
\* save leaves an image of the input's size at the output path; a save that
\* raised leaves the output path as it was or holding a truncated file.
Annotated(path, payload, fault, made, r) ==
    IF r.save = "done"
    THEN \E quad \in OutputQuads :
            /\ files' = [files EXCEPT ![OutputPath(path)] =
                            ImageFile(files[path].width, files[path].height, quad)]
            /\ call' = ReturnedFrom(path, payload, fault, made, r, OutputPath(path))
    ELSE IF r.save = "failed"
    THEN \/ /\ files' = files
            /\ call' = ReturnedFrom(path, payload, fault, made, r, NoPath)
         \/ /\ files' = [files EXCEPT ![OutputPath(path)] = Corrupt]
            /\ call' = ReturnedFrom(path, payload, fault, made, r, OutputPath(path))
    ELSE /\ files' = files
         /\ call' = ReturnedFrom(path, payload, fault, made, r, NoPath)

Constructing(path, payload, fault, made) ==
    IF made.exc # "none"
    THEN /\ call' = RaisedIn(path, payload, fault, made)
         /\ files' = files
    ELSE Annotated(path, payload, fault, made,
                   AnnotateChart(files[path], path, payload, fault))

AnnotateChartWithAnalysis(path, payload, fault) ==
    Constructing(path, payload, fault, Construct(files[path]))

----------------------------------------------------------------------------
(* ChartAnalyzer._validate_result.  The payload is the dict json.loads     *)
(* returns: a field holds a string, a number (kept as the text str() gives *)
(* for it; json.loads also reads the literal NaN), None, or is missing.    *)
(* Numbers are read in hundredths, as in the renderer.                     *)

NumOf(chars) == [t |-> "num", s |-> chars]

RequiredFields == {"bias", "setup", "entry", "sl", "tp", "confidence", "key_level",
                   "reasoning"}
LeverageField == "leverage_recommendation"
ResultFields == RequiredFields \cup {LeverageField}

\* str(x)
PyStr(v) == IF v.t \in {"str", "num"} THEN v.s ELSE <<"N", "o", "n", "e">>

\* .replace(c, '')
Without(chars, c) == SelectSeq(chars, LAMBDA x : x # c)

\* float() reads the texts "nan" and "NaN" as the float nan
IsNanText(chars) == chars \in {<<"n", "a", "n">>, <<"N", "a", "N">>}

\* float(str(x)): [ok, nan, value], not ok for a ValueError
NanFloat == [ok |-> TRUE, nan |-> TRUE, value |-> 0]
Finite(f) == [ok |-> f.ok, nan |-> FALSE, value |-> f.value]
FloatOf(chars) == IF IsNanText(chars) THEN NanFloat ELSE Finite(PyFloat(chars))

\* int(): [ok, value] in units, not ok (ValueError) unless an optional sign
\* is followed by digits only
SignedDigits(chars, sign) ==
    IF chars # <<>> /\ AllDigits(chars)
    THEN [ok |-> TRUE, value |-> sign * DigitsValue(chars, 0)]
    ELSE [ok |-> FALSE, value |-> 0]
PyInt(chars) ==
    IF chars # <<>> /\ Head(chars) = "-" THEN SignedDigits(Tail(chars), -1)
    ELSE IF chars # <<>> /\ Head(chars) = "+" THEN SignedDigits(Tail(chars), 1)
    ELSE SignedDigits(chars, 1)

\* every comparison with nan is false
FloatLess(f, hundredths) == ~f.nan /\ f.value < hundredths
FloatAtMost(f, hundredths) == ~f.nan /\ f.value <= hundredths
FloatMore(f, hundredths) == ~f.nan /\ f.value > hundredths

\* result.pop('leverage_recommendation', None)
Popped(result) == [result EXCEPT ![LeverageField] = Missing]

\* Mutant: the range test keeps what it should drop.
LeverageCheckedWithoutRange(result, leverage) ==
    IF ~leverage.ok THEN Popped(result) ELSE result

\* if leverage < 1.0 or leverage > 100.0: pop; except (ValueError, TypeError): pop
LeverageChecked(result, leverage) ==
    IF ~leverage.ok THEN Popped(result)
    ELSE IF FloatLess(leverage, 100) \/ FloatMore(leverage, 10000) THEN Popped(result)
    ELSE result

\* if 'leverage_recommendation' in result: ...
LeverageValidated(result) ==
    IF result[LeverageField] = Missing THEN result
    ELSE LeverageChecked(result, FloatOf(PyStr(result[LeverageField])))

Rejected(result) == [ret |-> FALSE, result |-> result]
Accepted(result) == [ret |-> TRUE, result |-> result]

\* The try block once entry, sl, tp and confidence are converted.  The
\* reward:risk test that follows the leverage test only logs.
ValidateParsed(result, entry, sl, tp, confidence) ==
    IF ~(entry.ok /\ sl.ok /\ tp.ok /\ confidence.ok) THEN Rejected(result)
    ELSE IF FloatAtMost(entry, 0) \/ FloatAtMost(sl, 0) \/ FloatAtMost(tp, 0)
    THEN Rejected(result)
    ELSE IF ~(0 <= confidence.value /\ confidence.value <= 100) THEN Rejected(result)
    ELSE Accepted(LeverageValidated(result))

\* float(str(result[field]).replace(',', ''))
PriceOf(result, field) == FloatOf(Without(PyStr(result[field]), ","))

\* _validate_result: what it returns and the payload it leaves
ValidateResult(result) ==
    IF \E field \in RequiredFields : result[field] = Missing THEN Rejected(result)
    ELSE ValidateParsed(result, PriceOf(result, "entry"), PriceOf(result, "sl"),
                        PriceOf(result, "tp"),
                        PyInt(Without(PyStr(result["confidence"]), "%")))

PriceValues == {StrOf(<<"1", "0", "0">>), StrOf(<<"1", ",", "0", "5", "0", ".", "5">>),
                NumOf(<<"9", "5">>), StrOf(<<"0">>), StrOf(<<"a", "b", "c">>)}
ConfidenceValues == {NumOf(<<"8", "5">>), StrOf(<<"8", "5", "%">>), NumOf(<<"0">>),
                     NumOf(<<"1", "0", "1">>), NumOf(<<"-", "1">>),
                     NumOf(<<"8", "5", ".", "5">>)}
LeverageValues == {Missing, PyNone, NumOf(<<"0", ".", "5">>), NumOf(<<"1">>),
                   NumOf(<<"5", "0">>), StrOf(<<"5", "0">>), NumOf(<<"1", "0", "0">>),
                   NumOf(<<"1", "0", "0", ".", "5">>), NumOf(<<"-", "3">>),
                   StrOf(<<"1", "0", "x">>), StrOf(<<"n", "a", "n">>),
                   NumOf(<<"n", "a", "n">>)}
Texts == {StrOf(<<"L", "o", "n", "g">>), Missing}

\* The payloads: the text fields all present or all missing.
ResultOf(entry, sl, tp, confidence, leverage, text) ==
    [field \in ResultFields |->
        CASE field = "entry" -> entry
          [] field = "sl" -> sl
          [] field = "tp" -> tp
          [] field = "confidence" -> confidence
          [] field = LeverageField -> leverage
          [] OTHER -> text]

NoResult == ResultOf(Missing, Missing, Missing, Missing, Missing, Missing)
NoValidation == [called |-> FALSE, payload |-> NoResult, out |-> Rejected(NoResult)]

----------------------------------------------------------------------------
(* Concurrent calls of annotate_chart_with_analysis, one per handler.  A   *)
(* call reads its source image when ChartAnnotator is constructed, draws   *)
(* on its own copy in memory and writes the output file in image.save; the *)
(* steps of other calls may fall between the read and the write.           *)

Handlers == {"h1", "h2"}

IdleJob == [pc |-> "idle", path |-> NoPath, payload |-> NoAnnotation.payload,
            fault |-> "none", img |-> Absent, ret |-> NoPath, wrote |-> NoPath]
NoJobs == [h \in Handlers |-> IdleJob]

\* ChartAnnotator(chart_path): the job after the constructor
Opened(path, payload, fault, made, file) ==
    [IdleJob EXCEPT !.pc = IF made.exc = "none" THEN "opened" ELSE "raised",
                    !.path = path, !.payload = payload, !.fault = fault, !.img = file]

\* The job after annotate_chart ended in r, having written to wrote.
Finished(job, r, wrote) == [job EXCEPT !.pc = "done", !.ret = r.ret, !.wrote = wrote]

\* The effect of handler h's annotate_chart ending in r, as in Annotated.
SavedBy(h, r) ==
    IF r.save = "done"
    THEN \E quad \in OutputQuads :
            /\ files' = [files EXCEPT ![OutputPath(jobs[h].path)] =
                            ImageFile(jobs[h].img.width, jobs[h].img.height, quad)]
            /\ jobs' = [jobs EXCEPT ![h] = Finished(@, r, OutputPath(jobs[h].path))]
    ELSE IF r.save = "failed"
    THEN \/ /\ files' = files
            /\ jobs' = [jobs EXCEPT ![h] = Finished(@, r, NoPath)]
         \/ /\ files' = [files EXCEPT ![OutputPath(jobs[h].path)] = Corrupt]
            /\ jobs' = [jobs EXCEPT ![h] = Finished(@, r, OutputPath(jobs[h].path))]
    ELSE /\ files' = files
         /\ jobs' = [jobs EXCEPT ![h] = Finished(@, r, NoPath)]

----------------------------------------------------------------------------
(* bot.py: handle_text and handle_leverage_calculation.  A message text is *)
(* the sequence of its words, each a sequence of characters, separated by  *)
(* single spaces.  The two words of the command are written in Latin       *)
(* letters here; the numbers of the model's messages are whole.            *)

Word1 == <<"m", "o", "h", "a", "s", "e", "b", "e", "h">>
Word2 == <<"a", "h", "r", "o", "m">>
Hello == <<"H", "i">>
Help == <<"h", "e", "l", "p">>
Start == <<"s", "t", "a", "r", "t">>
Other == <<"a", "b", "c">>

\* str.lower() on the letters of the model
LowerChar(c) ==
    CASE c = "H" -> "h" [] c = "L" -> "l" [] c = "O" -> "o" [] c = "N" -> "n"
      [] c = "G" -> "g" [] c = "R" -> "r" [] c = "S" -> "s" [] OTHER -> c
Lower(chars) == [i \in 1 .. Len(chars) |-> LowerChar(chars[i])]
LowerText(words) == [i \in 1 .. Len(words) |-> Lower(words[i])]

IsPrefix(p, chars) == Len(p) <= Len(chars) /\ SubSeq(chars, 1, Len(p)) = p

\* text.startswith('<word1> <word2>')
StartsWithCommand(words) ==
    Len(words) >= 2 /\ words[1] = Word1 /\ IsPrefix(Word2, words[2])

Reply(kind) == [kind |-> kind, calc |-> NoCalculation]

\* format_position_calculation(calc), or the except clauses' answers
ReplyTo(out) ==
    IF out.exc = "none" THEN [kind |-> "calculation", calc |-> out.value]
    ELSE IF out.exc = "ValueError" THEN Reply("invalid_number")
    ELSE Reply("error")

\* float(parts[i]) of a whole number, in units
UnitsOf(chars) == PyFloat(chars).value \div 100

\* parts[i] of Python, counted from 0
Part(parts, i) == parts[i + 1]

\* The try block after the length test: any float() that raises ValueError
\* ends it, else calculate_position_size is called.
Calculated(parts) ==
    IF \E i \in 1 .. 4 : ~PyFloat(Part(parts, i)).ok THEN Raised("ValueError")
    ELSE IF Len(parts) > 5 /\ ~PyFloat(Part(parts, 5)).ok THEN Raised("ValueError")
    ELSE CalculatePositionSize(UnitsOf(Part(parts, 2)), UnitsOf(Part(parts, 3)),
                               UnitsOf(Part(parts, 1)), UnitsOf(Part(parts, 4)),
                               IF Len(parts) > 5 THEN UnitsOf(Part(parts, 5)) ELSE 1)

\* handle_leverage_calculation: parts = message.text.split()
HandleLeverageCalculation(parts) ==
    IF Len(parts) < 5 THEN Reply("format_error")
    ELSE ReplyTo(Calculated(parts))

\* handle_text: the answer to the message
HandleText(words) ==
    IF LowerText(words) = <<Lower(Hello)>> THEN Reply("greeting")
    ELSE IF LowerText(words) = <<Help>> THEN Reply("help")
    ELSE IF LowerText(words) = <<Start>> THEN Reply("start")
    ELSE IF StartsWithCommand(LowerText(words)) THEN HandleLeverageCalculation(words)
    ELSE Reply("unknown")

BalanceWords == {<<"1", "0", "0", "0">>, <<"-", "1", "0", "0", "0">>, Other}
PriceWords == {<<"1">>, <<"3">>}
RiskWords == {<<"2">>, <<"0">>}
LeverageWords == {<<"1", "0">>, <<"1">>, <<"0">>}

\* The command followed by the first k of its five fields.
CommandTexts ==
    {<<Word1, Word2>> \o SubSeq(<<b, e, s, r, l>>, 1, k) :
        b \in BalanceWords, e \in PriceWords, s \in PriceWords, r \in RiskWords,
        l \in LeverageWords, k \in 0 .. 5}

Texts4 == {<<Hello>>, <<Help>>, <<Start>>, <<Other>>, <<Word1>>, <<Word1, Other>>}
MessageTexts == CommandTexts \cup Texts4

NoChat == [called |-> FALSE, text |-> <<>>, reply |-> Reply("none")]

----------------------------------------------------------------------------
(* The two presentations of one payload: the summary box drawn by          *)
(* ChartAnnotator._draw_signal_text and the chat text built by             *)
(* SignalFormatter.format_signal.  An RR label is "RR -" (kind "none"),    *)
(* "RR 1:0" (kind "int", the integer 0) or "RR 1:" followed by a float     *)
(* (kind "float", rr in hundredths).                                       *)

RECURSIVE LStrip(_)
LStrip(chars) ==
    IF chars # <<>> /\ Head(chars) = " " THEN LStrip(Tail(chars)) ELSE chars
Reverse(chars) == [i \in 1 .. Len(chars) |-> chars[Len(chars) + 1 - i]]
\* str.strip()
Strip(chars) == Reverse(LStrip(Reverse(LStrip(chars))))

\* data.get(field, default)
GetOr(v, default) == IF v.t = "missing" THEN default ELSE v

NotAvailable == StrOf(<<"N", "/", "A">>)
Unknown == StrOf(<<"n", "a", "m", "o", "s", "h", "a", "k", "h", "a", "s">>)
Zero == StrOf(<<"0">>)

\* round(reward / risk, 2) for risk > 0, in hundredths (ties to even)
Round2(reward, risk) ==
    LET q == (100 * reward) \div risk
        r == 100 * reward - q * risk
    IN  IF 2 * r > risk \/ (2 * r = risk /\ q % 2 = 1) THEN q + 1 ELSE q

NoRatio == [kind |-> "none", rr |-> 0]
IntZero == [kind |-> "int", rr |-> 0]
Ratio(reward, risk) == [kind |-> "float", rr |-> Round2(reward, risk)]

\* The header of a lower-cased bias
Direction(bias_lower) ==
    IF bias_lower = <<"s", "h", "o", "r", "t">> THEN "SHORT"
    ELSE IF bias_lower = <<"l", "o", "n", "g">> THEN "LONG"
    ELSE "RANGE"

\* risk and reward by the bias, in hundredths; other is the risk of the
\* branch for every other bias
RiskReward(direction, entry_val, sl_val, tp_val, other) ==
    IF direction = "LONG" THEN [risk |-> entry_val - sl_val, reward |-> tp_val - entry_val]
    ELSE IF direction = "SHORT"
    THEN [risk |-> sl_val - entry_val, reward |-> entry_val - tp_val]
    ELSE [risk |-> other, reward |-> 0]

\* _draw_signal_text: rr = round(reward / risk, 2) if risk > 0 else 0
BoxRatio(rr) == IF rr.risk > 0 THEN Ratio(rr.reward, rr.risk) ELSE IntZero

\* _draw_signal_text, the inner try: float(str(x).replace(',', '')) of the
\* three prices, bias.lower(); "RR -" when any of them raises
BoxRRText(bias, entry, sl, tp) ==
    IF bias.t # "str" \/ ~entry.ok \/ ~sl.ok \/ ~tp.ok THEN NoRatio
    ELSE BoxRatio(RiskReward(Direction(Lower(bias.s)), entry.value, sl.value, tp.value, 100))

BoxFloat(v) == PyFloat(Without(PyStr(GetOr(v, NotAvailable)), ","))

\* _draw_signal_text: text_color = (255, 255, 255)
BoxTextColor(is_dark_theme) == White

\* _draw_horizontal_line: text_light on a dark theme, text_dark otherwise
LabelTextColor(is_dark_theme) == IF is_dark_theme THEN White ELSE Black

NoBox == [drawn |-> FALSE, header |-> "none", rr |-> NoRatio, text_color |-> Black]

\* _draw_signal_text: the box drawn, or nothing when the header's
\* bias.lower() raises into the outer except clause
DrawSignalTextOf(bias, payload, is_dark_theme) ==
    IF bias.t # "str" THEN NoBox
    ELSE [drawn |-> TRUE, header |-> Direction(Lower(bias.s)),
          rr |-> BoxRRText(bias, BoxFloat(payload.entry), BoxFloat(payload.sl),
                           BoxFloat(payload.tp)),
          text_color |-> BoxTextColor(is_dark_theme)]

DrawSignalText(payload, is_dark_theme) ==
    DrawSignalTextOf(GetOr(payload.bias, NotAvailable), payload, is_dark_theme)

\* format_signal: float(x), with the default '0' for a missing price
ChatFloat(v) ==
    IF GetOr(v, Zero).t = "none" THEN [ok |-> FALSE, value |-> 0]
    ELSE PyFloat(GetOr(v, Zero).s)

\* format_signal: the ratio if risk > 0, else "RR -"
ChatRatio(rr) == IF rr.risk > 0 THEN Ratio(rr.reward, rr.risk) ELSE NoRatio

\* format_signal, the try block: "RR -" when a float() raises
ChatRRText(direction, entry, sl, tp) ==
    IF ~entry.ok \/ ~sl.ok \/ ~tp.ok THEN NoRatio
    ELSE ChatRatio(RiskReward(direction, entry.value, sl.value, tp.value, 0))

\* format_signal: bias_lower = bias.lower().strip() and the branch on it
ChatDirection(bias) == Direction(Strip(Lower(bias)))

\* format_signal: bias.lower() is outside every try block
FormatSignalOf(bias, payload) ==
    IF bias.t # "str" THEN [exc |-> "AttributeError", header |-> "none", rr |-> NoRatio]
    ELSE [exc |-> "none", header |-> ChatDirection(bias.s),
          rr |-> ChatRRText(ChatDirection(bias.s), ChatFloat(payload.entry),
                            ChatFloat(payload.sl), ChatFloat(payload.tp))]

FormatSignal(payload) == FormatSignalOf(GetOr(payload.bias, Unknown), payload)

SignalBiases == Biases \cup {Missing, NumOf(<<"1">>), StrOf(<<"u", "p">>),
                              StrOf(<<"L", "O", "N", "G", " ">>)}
SignalPrices == {Missing, StrOf(<<"a", "b", "c">>), StrOf(<<"1", "0", "0">>),
                 StrOf(<<"2", "6", "2">>), StrOf(<<"1", ",", "0", "5", "0", ".", "5">>)}
SignalPayloads == [entry : SignalPrices, sl : SignalPrices, tp : SignalPrices,
                   bias : SignalBiases]
SignalImages == {ImageFile(120, 200, Pixels(Black)), ImageFile(120, 200, Pixels(White))}

NoSignal == [called |-> FALSE, img |-> Absent,
             payload |-> [entry |-> Missing, sl |-> Missing, tp |-> Missing,
                          bias |-> Missing],
             dark |-> FALSE, box |-> NoBox, label_color |-> Black,
             text |-> [exc |-> "none", header |-> "none", rr |-> NoRatio]]

\* handle_chart shows one payload twice: on the annotated image and in the
\* chat text.
Presented(img, payload, is_dark_theme) ==
    [called |-> TRUE, img |-> img, payload |-> payload, dark |-> is_dark_theme,
     box |-> DrawSignalText(payload, is_dark_theme),
     label_color |-> LabelTextColor(is_dark_theme),
     text |-> FormatSignal(payload)]

----------------------------------------------------------------------------
(* bot.handle_chart: download the photo to a fresh path, validate it,      *)
(* annotate it unless the analysis is an error stand-in, send the text and *)
(* the annotated image, and remove the temporary files in the finally      *)
(* clause.                                                                 *)

\* An image file cut short: its header (format, size) can be read, its pixel
\* data cannot be decoded.
Truncated == [kind |-> "truncated", width |-> 120, height |-> 200, quad |-> Pixels(Black)]

\* image_processor.validate_image, which reads the header only
ValidateImage(file) ==
    file.kind \in {"image", "truncated"} /\ file.width >= 100 /\ file.height >= 100

\* if os.path.exists(path): os.remove(path); None is no path
Removed(fs, path) == IF path = NoPath THEN fs ELSE [fs EXCEPT ![path] = Absent]

\* The finally clause of handle_chart
Cleanup(fs, file_path, annotated_chart_path) ==
    Removed(Removed(fs, file_path), annotated_chart_path)

\* The file system after annotate_chart ended in r: a completed save leaves
\* the annotated image, a save that raised leaves the output path as it was
\* or (partial) holding a truncated file.
Saved(fs, path, r, partial) ==
    IF r.save = "done"
    THEN [fs EXCEPT ![OutputPath(path)] =
              ImageFile(fs[path].width, fs[path].height, Pixels(Black))]
    ELSE IF r.save = "failed" /\ partial THEN [fs EXCEPT ![OutputPath(path)] = Corrupt]
    ELSE fs

\* try: annotated_chart_path = annotate_chart_with_analysis(...) except: log
\* [annotated_chart_path, files]; skipped for an error payload
TryAnnotate(fs, path, payload, fault, partial, made) ==
    IF payload.error \/ made.exc # "none" THEN [annotated_chart_path |-> NoPath, files |-> fs]
    ELSE [annotated_chart_path |-> AnnotateChart(fs[path], path, payload, fault).ret,
          files |-> Saved(fs, path, AnnotateChart(fs[path], path, payload, fault), partial)]

\* The way handle_chart ends once the image passed validation.
Ending(payload, fault, file_path, annotated_chart_path) ==
    IF FormatSignal(payload).exc # "none" THEN "format_raised"
    ELSE IF fault = "send" THEN "send_raised"
    ELSE IF payload.error THEN "error_payload"
    ELSE IF annotated_chart_path = NoPath THEN "annotate_raised"
    ELSE IF annotated_chart_path = file_path THEN "original_returned"
    ELSE "success"

Handled(ending, file_path, annotated_chart_path, fs) ==
    [ending |-> ending, file_path |-> file_path,
     annotated_chart_path |-> annotated_chart_path, files |-> fs]

\* Steps 7 to 9: annotate, format and send, clean up.
Analysed(file_path, payload, fault, a) ==
    Handled(Ending(payload, fault, file_path, a.annotated_chart_path), file_path,
            a.annotated_chart_path, Cleanup(a.files, file_path, a.annotated_chart_path))

\* handle_chart on a photo whose download leaves img at file_path
HandleChart(fs, file_path, img, payload, fault, partial) ==
    IF fault = "download"
    THEN Handled("download_raised", file_path, NoPath,
                 Cleanup(IF partial THEN [fs EXCEPT ![file_path] = Corrupt] ELSE fs,
                         file_path, NoPath))
    ELSE IF ~ValidateImage(img)
    THEN Handled("invalid", file_path, NoPath,
                 Cleanup([fs EXCEPT ![file_path] = img], file_path, NoPath))
    ELSE Analysed(file_path, payload, fault,
                  TryAnnotate([fs EXCEPT ![file_path] = img], file_path, payload, fault,
                              partial, Construct(img)))

\* get_unique_filename: a fresh name in CHARTS_DIR
UniqueFilename == [dir |-> ChartsDir, name |-> <<Stem>>]

ChartFaults == Faults \cup {"download", "send"}
ChartPayloads ==
    [entry : {Missing, StrOf(<<"1", "0", "0">>)},
     sl : {StrOf(<<"a", "b", "c">>), StrOf(<<"2", "6", "2">>)},
     tp : {StrOf(<<"1", ",", "0", "5", "0", ".", "5">>)},
     bias : {StrOf(<<"L", "o", "n", "g">>), PyNone},
     error : BOOLEAN]
Photos == (SourceFiles \ {Absent}) \cup {Truncated}

NoChart == [called |-> FALSE, photo |-> Absent,
            payload |-> [entry |-> Missing, sl |-> Missing, tp |-> Missing,
                         bias |-> PyNone, error |-> FALSE],
            fault |-> "none",
            out |-> Handled("none", NoPath, NoPath, [p \in Paths |-> Absent])]

----------------------------------------------------------------------------
(* The specifications: one per component.  Each leaves the variables of    *)
(* the other components at their initial values.                           *)

NoFiles == [p \in Paths |-> Absent]

InitCalc ==
    /\ rec = NoRecommendation
    /\ valid = NoValidation
    /\ jobs = NoJobs
    /\ chat = NoChat
    /\ sig = NoSignal
    /\ chart = NoChart
    /\ calc = NoCall
    /\ theme = NoTheme
    /\ mapper = NoMapping
    /\ files = NoFiles
    /\ call = NoAnnotation

CallCalculatePositionSize ==
    \E e \in CalcPrices, s \in CalcPrices, b \in Balances,
       r \in RiskPercents, l \in Leverages :
        calc' = [called |-> TRUE, entry_price |-> e, stop_loss |-> s,
                 account_balance |-> b, risk_percent |-> r, leverage |-> l,
                 out |-> CalculatePositionSize(e, s, b, r, l)]
        /\ UNCHANGED <<theme, mapper, files, call, rec, valid, jobs, chat, sig, chart>>

NextCalc == CallCalculatePositionSize

SpecCalc == InitCalc /\ [][NextCalc]_vars

InitTheme ==
    /\ rec = NoRecommendation
    /\ valid = NoValidation
    /\ jobs = NoJobs
    /\ chat = NoChat
    /\ sig = NoSignal
    /\ chart = NoChart
    /\ calc = NoCall
    /\ mapper = NoMapping
    /\ files = NoFiles
    /\ call = NoAnnotation
    /\ \E img \in ThemeImages : theme = [NoTheme EXCEPT !.img = img]

CallDetectChartTheme ==
    /\ ~theme.called
    /\ theme' = [theme EXCEPT !.called = TRUE, !.out = DetectChartTheme(theme.img)]
    /\ UNCHANGED <<calc, mapper, files, call, rec, valid, jobs, chat, sig, chart>>

NextTheme == CallDetectChartTheme

SpecTheme == InitTheme /\ [][NextTheme]_vars

InitMapper ==
    /\ rec = NoRecommendation
    /\ valid = NoValidation
    /\ jobs = NoJobs
    /\ chat = NoChat
    /\ sig = NoSignal
    /\ chart = NoChart
    /\ calc = NoCall
    /\ theme = NoTheme
    /\ files = NoFiles
    /\ call = NoAnnotation
    /\ \E h \in MapHeights, lo \in MapPrices, hi \in MapPrices,
          a \in MapPrices, b \in MapPrices :
           mapper = [NoMapping EXCEPT !.height = h, !.min_price = lo, !.max_price = hi,
                                      !.p1 = a, !.p2 = b]

CallPriceToYPosition ==
    /\ ~mapper.called
    /\ mapper' = [mapper EXCEPT
                     !.called = TRUE,
                     !.y1 = PriceToYPosition(mapper.height, mapper.p1,
                                             mapper.min_price, mapper.max_price),
                     !.y2 = PriceToYPosition(mapper.height, mapper.p2,
                                             mapper.min_price, mapper.max_price)]
    /\ UNCHANGED <<calc, theme, files, call, rec, valid, jobs, chat, sig, chart>>

NextMapper == CallPriceToYPosition

SpecMapper == InitMapper /\ [][NextMapper]_vars

\* The source images: one outside the charts directory, one inside it (where
\* the bot stores its downloads); no annotated copy exists yet.
InitFiles ==
    /\ rec = NoRecommendation
    /\ valid = NoValidation
    /\ jobs = NoJobs
    /\ chat = NoChat
    /\ sig = NoSignal
    /\ chart = NoChart
    /\ calc = NoCall
    /\ theme = NoTheme
    /\ mapper = NoMapping
    /\ call = NoAnnotation
    /\ \E f \in SourceFiles :
           files = [NoFiles EXCEPT ![[dir |-> "inbox", name |-> <<Stem>>]] = f,
                                   ![[dir |-> ChartsDir, name |-> <<Stem>>]] =
                                       ImageFile(120, 200, Pixels(Black))]

CallablePaths == {p \in Paths : Len(p.name) <= MaxDepth}

\* One call, on any path, with any payload.
CallAnnotate ==
    /\ ~call.called
    /\ \E path \in CallablePaths, payload \in Payloads, fault \in Faults :
           AnnotateChartWithAnalysis(path, payload, fault)
    /\ UNCHANGED <<calc, theme, mapper, rec, valid, jobs, chat, sig, chart>>

NextAnnotate == CallAnnotate

SpecAnnotate == InitFiles /\ [][NextAnnotate]_vars

\* Call after call, each on any path, annotated copies included.
SignalPayload == [entry |-> StrOf(<<"1", "0", "0">>), sl |-> StrOf(<<"-", "5">>),
                  tp |-> StrOf(<<"1", ",", "0", "5", "0", ".", "5">>),
                  bias |-> StrOf(<<"L", "o", "n", "g">>), error |-> FALSE]
EmptyPayload == [entry |-> Missing, sl |-> StrOf(<<"a", "b", "c">>), tp |-> Missing,
                 bias |-> StrOf(<<"R", "a", "n", "g", "e">>), error |-> FALSE]

CallAnnotateAgain ==
    /\ \E path \in CallablePaths, payload \in {SignalPayload, EmptyPayload},
          fault \in {"none", "tp", "save"} :
           AnnotateChartWithAnalysis(path, payload, fault)
    /\ UNCHANGED <<calc, theme, mapper, rec, valid, jobs, chat, sig, chart>>

NextReannotate == CallAnnotateAgain

SpecReannotate == InitFiles /\ [][NextReannotate]_vars

InitRecommend ==
    /\ calc = NoCall
    /\ theme = NoTheme
    /\ mapper = NoMapping
    /\ files = NoFiles
    /\ call = NoAnnotation
    /\ valid = NoValidation
    /\ jobs = NoJobs
    /\ chat = NoChat
    /\ sig = NoSignal
    /\ chart = NoChart
    /\ \E c \in Confidences, v \in VolatilityLevels, r \in RiskLevels :
           rec = [NoRecommendation EXCEPT !.confidence = c, !.volatility = v,
                                          !.risk_level = r]

CallRecommendLeverage ==
    /\ ~rec.called
    /\ rec' = [rec EXCEPT !.called = TRUE,
                          !.out = RecommendLeverage(rec.confidence, rec.volatility,
                                                    rec.risk_level)]
    /\ UNCHANGED <<calc, theme, mapper, files, call, valid, jobs, chat, sig, chart>>

NextRecommend == CallRecommendLeverage

SpecRecommend == InitRecommend /\ [][NextRecommend]_vars

InitValidate ==
    /\ calc = NoCall
    /\ theme = NoTheme
    /\ mapper = NoMapping
    /\ files = NoFiles
    /\ call = NoAnnotation
    /\ rec = NoRecommendation
    /\ jobs = NoJobs
    /\ chat = NoChat
    /\ sig = NoSignal
    /\ chart = NoChart
    /\ \E entry \in PriceValues, sl \in PriceValues, tp \in PriceValues,
          confidence \in ConfidenceValues, leverage \in LeverageValues, text \in Texts :
           valid = [NoValidation EXCEPT
                       !.payload = ResultOf(entry, sl, tp, confidence, leverage, text)]

CallValidateResult ==
    /\ ~valid.called
    /\ valid' = [valid EXCEPT !.called = TRUE, !.out = ValidateResult(valid.payload)]
    /\ UNCHANGED <<calc, theme, mapper, files, call, rec, jobs, chat, sig, chart>>

NextValidate == CallValidateResult

SpecValidate == InitValidate /\ [][NextValidate]_vars

\* Handler h calls annotate_chart_with_analysis: the constructor opens the
\* source image.
StartAnnotate(h) ==
    /\ jobs[h].pc = "idle"
    /\ \E path \in CallablePaths, payload \in {SignalPayload, EmptyPayload},
          fault \in {"none", "save"} :
           jobs' = [jobs EXCEPT ![h] = Opened(path, payload, fault,
                                              Construct(files[path]), files[path])]
    /\ UNCHANGED <<calc, theme, mapper, files, call, rec, valid, chat, sig, chart>>

\* Handler h's annotate_chart draws on the image it opened and saves it.
FinishAnnotate(h) ==
    /\ jobs[h].pc = "opened"
    /\ SavedBy(h, AnnotateChart(jobs[h].img, jobs[h].path, jobs[h].payload,
                                jobs[h].fault))
    /\ UNCHANGED <<calc, theme, mapper, call, rec, valid, chat, sig, chart>>

NextConcurrent == \E h \in Handlers : StartAnnotate(h) \/ FinishAnnotate(h)

SpecConcurrent == InitFiles /\ [][NextConcurrent]_vars

InitChat ==
    /\ calc = NoCall
    /\ theme = NoTheme
    /\ mapper = NoMapping
    /\ files = NoFiles
    /\ call = NoAnnotation
    /\ rec = NoRecommendation
    /\ valid = NoValidation
    /\ jobs = NoJobs
    /\ \E text \in MessageTexts : chat = [NoChat EXCEPT !.text = text]
    /\ sig = NoSignal
    /\ chart = NoChart

\* The dispatcher delivers the text message to handle_text.
ReceiveText ==
    /\ ~chat.called
    /\ chat' = [chat EXCEPT !.called = TRUE, !.reply = HandleText(chat.text)]
    /\ UNCHANGED <<calc, theme, mapper, files, call, rec, valid, jobs, sig, chart>>

NextChat == ReceiveText

SpecChat == InitChat /\ [][NextChat]_vars

InitSignal ==
    /\ calc = NoCall
    /\ theme = NoTheme
    /\ mapper = NoMapping
    /\ files = NoFiles
    /\ call = NoAnnotation
    /\ rec = NoRecommendation
    /\ valid = NoValidation
    /\ jobs = NoJobs
    /\ chat = NoChat
    /\ \E img \in SignalImages, payload \in SignalPayloads :
           sig = [NoSignal EXCEPT !.img = img, !.payload = payload]
    /\ chart = NoChart

\* The annotator is constructed on the image, the box is drawn and the chat
\* text is formatted.
PresentSignal ==
    /\ ~sig.called
    /\ sig' = Presented(sig.img, sig.payload, Construct(sig.img).dark)
    /\ UNCHANGED <<calc, theme, mapper, files, call, rec, valid, jobs, chat, chart>>

NextSignal == PresentSignal

SpecSignal == InitSignal /\ [][NextSignal]_vars

InitChart ==
    /\ calc = NoCall
    /\ theme = NoTheme
    /\ mapper = NoMapping
    /\ files = NoFiles
    /\ call = NoAnnotation
    /\ rec = NoRecommendation
    /\ valid = NoValidation
    /\ jobs = NoJobs
    /\ chat = NoChat
    /\ sig = NoSignal
    /\ \E img \in Photos, payload \in ChartPayloads, fault \in ChartFaults :
           chart = [NoChart EXCEPT !.photo = img, !.payload = payload, !.fault = fault]

\* The photo arrives and handle_chart runs to its end.
ReceivePhoto ==
    /\ ~chart.called
    /\ \E partial \in BOOLEAN :
           chart' = [chart EXCEPT
                        !.called = TRUE,
                        !.out = HandleChart(files, UniqueFilename, chart.photo,
                                            chart.payload, chart.fault, partial)]
    /\ files' = chart'.out.files
    /\ UNCHANGED <<calc, theme, mapper, call, rec, valid, jobs, chat, sig>>

NextChart == ReceivePhoto

SpecChart == InitChart /\ [][NextChart]_vars

----------------------------------------------------------------------------
(* The position size calculator's claims.                                  *)

\* C1: a call with entry_price = stop_loss raises ValueError and returns
\* no PositionCalculation, whatever the balance, risk percent and leverage.
C1_EqualPricesRaise ==
    (calc.called /\ calc.entry_price = calc.stop_loss)
        => (calc.out.exc = "ValueError" /\ calc.out.value = NoCalculation)

C1_Witness ==
    /\ calc.called
    /\ calc.entry_price = calc.stop_loss
    /\ calc.leverage = 10
    /\ calc.out.exc = "ValueError"

\* C2: every returned result with potential_loss > 0 has its profit target
\* twice the stop distance beyond entry in the favourable direction (above
\* entry for a long, below entry for a short) and rr_ratio = 2.
C2_TargetTwiceStopDistance ==
    (calc.called /\ calc.out.exc = "none" /\ RPos(calc.out.value.potential_loss))
        => /\ calc.out.value.rr_ratio = RInt(2)
           /\ calc.entry_price > calc.stop_loss =>
                 calc.out.value.profit_price
                     = calc.entry_price + 2 * (calc.entry_price - calc.stop_loss)
           /\ calc.entry_price < calc.stop_loss =>
                 calc.out.value.profit_price
                     = calc.entry_price - 2 * (calc.stop_loss - calc.entry_price)

\* C3: every call with entry_price # stop_loss returns a PositionCalculation
\* and does not raise, for any balance, risk percent and leverage.
C3_OnlyEqualPricesRaise ==
    (calc.called /\ calc.entry_price # calc.stop_loss) => calc.out.exc = "none"

\* C15: with account_balance, risk_percent and leverage fixed, a call whose
\* price risk |entry - stop| is half that of another returns twice its
\* position_size (the base size risk_amount / price_risk doubles).
C15_HalvingRiskDoublesSize ==
    (calc.called /\ calc.out.exc = "none")
        => \A e \in CalcPrices, s \in CalcPrices :
               2 * Abs(e - s) = Abs(calc.entry_price - calc.stop_loss)
                   => LET half == CalculatePositionSize(e, s, calc.account_balance,
                                                        calc.risk_percent, calc.leverage)
                      IN  /\ half.exc = "none"
                          /\ half.value.position_size
                                 = RMul(RInt(2), calc.out.value.position_size)

C15_Witness ==
    /\ calc.called
    /\ calc.out.exc = "none"
    /\ Abs(calc.entry_price - calc.stop_loss) = 2
    /\ calc.account_balance = 1000
    /\ calc.out.value.position_size = RInt(100)
    /\ CalculatePositionSize(calc.entry_price + 1, calc.stop_loss, calc.account_balance,
                             calc.risk_percent, calc.leverage).value.position_size
           = RInt(200)

\* risk_amount = (account_balance * risk_percent) / 100 of the call
RiskAmount == Rat(calc.account_balance * calc.risk_percent, 100)

LeveragedCall ==
    /\ calc.called
    /\ calc.entry_price # calc.stop_loss
    /\ calc.leverage > 0

\* C30 (as stated): for entry # stop and leverage > 0, potential_loss is
\* risk_amount * leverage, it equals the risk amount only when the leverage
\* is 1, and required_margin is base_size * entry whatever the leverage.
C30_LossScalesWithLeverage ==
    LeveragedCall
        => /\ calc.out.exc = "none"
           /\ calc.out.value.potential_loss = RMul(RiskAmount, RInt(calc.leverage))
           /\ calc.out.value.potential_loss = RiskAmount => calc.leverage = 1
           /\ calc.out.value.required_margin
                  = RDiv(RMul(RiskAmount, RInt(calc.entry_price)),
                         RInt(Abs(calc.entry_price - calc.stop_loss)))

\* C30 (amended): as stated, but the loss equals the risk amount exactly
\* when the leverage is 1 or the risk amount is 0 (a zero balance or a zero
\* risk percent gives a zero loss at every leverage).
C30_LossScalesUnlessZeroRisk ==
    LeveragedCall
        => /\ calc.out.exc = "none"
           /\ calc.out.value.potential_loss = RMul(RiskAmount, RInt(calc.leverage))
           /\ calc.out.value.potential_loss = RiskAmount
                  <=> (calc.leverage = 1 \/ RiskAmount = RInt(0))
           /\ calc.out.value.required_margin
                  = RDiv(RMul(RiskAmount, RInt(calc.entry_price)),
                         RInt(Abs(calc.entry_price - calc.stop_loss)))

C30_Witness ==
    /\ LeveragedCall
    /\ calc.leverage = 10
    /\ calc.account_balance = 1000
    /\ calc.risk_percent = 2
    /\ calc.entry_price = 3
    /\ calc.stop_loss = 1
    /\ RiskAmount = RInt(20)
    /\ calc.out.value.potential_loss = RInt(200)
    /\ calc.out.value.required_margin = RInt(30)

----------------------------------------------------------------------------
(* The price-to-pixel mapper's claims.                                     *)

MapperOrdered ==
    /\ mapper.called
    /\ mapper.min_price < mapper.p1
    /\ mapper.p1 < mapper.p2
    /\ mapper.p2 < mapper.max_price

\* C4 (as stated): for min_price < p1 < p2 < max_price the y of p1 is
\* strictly greater than the y of p2.
C4_StrictlyDecreasing == MapperOrdered => mapper.y1 > mapper.y2

\* C4 (amended): for min_price < p1 < p2 < max_price the y of p1 is greater
\* than or equal to the y of p2; the two are equal when the truncation or the
\* clamp maps both prices to the same pixel row.
C4_NonIncreasing == MapperOrdered => mapper.y1 >= mapper.y2

C4_Witness ==
    /\ MapperOrdered
    /\ mapper.height = 200
    /\ mapper.y1 > mapper.y2
    /\ mapper.y2 > 10

\* C16: with min_price = max_price the mapper returns the vertical midpoint
\* of the image, height / 2 truncated, whatever the price.
C16_EqualRangeMidpoint ==
    (mapper.called /\ mapper.min_price = mapper.max_price)
        => /\ mapper.y1 = mapper.height \div 2
           /\ mapper.y2 = mapper.height \div 2

C16_Witness ==
    /\ mapper.called
    /\ mapper.min_price = mapper.max_price
    /\ mapper.height = 15
    /\ mapper.p1 < mapper.min_price
    /\ mapper.p2 > mapper.max_price
    /\ mapper.y1 = 7
    /\ mapper.y2 = 7

OnCanvas(y) == 10 <= y /\ y <= mapper.height - 10

\* C17 (as stated): for every price, every range with min_price < max_price
\* and every image height, 10 <= y <= height - 10.
C17_ClampedForEveryHeight ==
    (mapper.called /\ mapper.min_price < mapper.max_price)
        => OnCanvas(mapper.y1) /\ OnCanvas(mapper.y2)

\* C17 (amended): for min_price < max_price and height >= 20,
\* 10 <= y <= height - 10; for a height below 20 the interval is empty and
\* the mapper returns 10.
C17_ClampedFromHeight20 ==
    (mapper.called /\ mapper.min_price < mapper.max_price)
        => IF mapper.height >= 20
           THEN OnCanvas(mapper.y1) /\ OnCanvas(mapper.y2)
           ELSE mapper.y1 = 10 /\ mapper.y2 = 10

C17_Witness ==
    /\ mapper.called
    /\ mapper.min_price < mapper.max_price
    /\ mapper.height = 200
    /\ mapper.p1 < mapper.min_price
    /\ mapper.p2 > mapper.max_price
    /\ mapper.y1 = 190
    /\ mapper.y2 = 10

----------------------------------------------------------------------------
(* The theme detector's claims.                                            *)

\* The sum of the channels of the sampled pixels, i.e. 12 times the mean over
\* the samples of the mean of the channels.
RECURSIVE ChannelSum(_, _)
ChannelSum(img, i) ==
    IF i > Len(Corners(img)) THEN 0
    ELSE LET p == GetPixel(img, Corners(img)[i][1], Corners(img)[i][2]).pixel
         IN  p[1] + p[2] + p[3] + ChannelSum(img, i + 1)

Uniform(img, pixel) == \A q \in 1 .. 4 : img.quad[q] = pixel

\* C5: the detector returns dark exactly when the mean over the four samples
\* of the mean of the three channels is strictly below 128; all black is
\* dark, all white is light, all (128,128,128) is light.
C5_DarkIffMeanBelow128 ==
    (theme.called /\ theme.out.exc = "none")
        => /\ theme.out.dark <=> (ChannelSum(theme.img, 1) < 12 * 128)
           /\ Uniform(theme.img, <<0, 0, 0>>) => theme.out.dark
           /\ Uniform(theme.img, <<255, 255, 255>>) => ~theme.out.dark
           /\ Uniform(theme.img, <<128, 128, 128>>) => ~theme.out.dark

\* C6: the detector has no error path: for every image size it returns a
\* boolean, the sampled coordinates being clamped into the image.
C6_ThemeNeverRaises == theme.called => theme.out.exc = "none"


----------------------------------------------------------------------------
(* The annotation renderer's claims.                                       *)

Constructed == call.called /\ call.exc = "none"
DerivedNames == {p \in Paths : Len(p.name) > 1}

\* C7: annotate on a payload whose entry and sl both parse to 0 (zero,
\* missing or unparsable) returns the input path, draws nothing and writes
\* no file.
C7_ZeroPricesNoOp ==
    (Constructed /\ ParsePrice(call.payload.entry) = 0 /\ ParsePrice(call.payload.sl) = 0)
        => /\ call.ret = call.path
           /\ call.steps = <<>>
           /\ call.wrote = NoPath
           /\ \A p \in DerivedNames : files[p] = Absent

C7_Witness ==
    /\ Constructed
    /\ call.payload.entry = StrOf(<<"a", "b", "c">>)
    /\ call.payload.sl = Missing
    /\ ParsePrice(call.payload.entry) = 0
    /\ ParsePrice(call.payload.sl) = 0
    /\ ParsePrice(call.payload.tp) > 0
    /\ call.ret = call.path

RenderingSteps == {"entry", "sl", "tp", "save"}

C9_EntryPointNeverRaises ==
    call.called => /\ call.exc = "none"
                   /\ call.ret \in {call.path, OutputPath(call.path)}

\* C10: no call writes to the path it was given: the only file a call
\* changes is the derived path, which differs from the input path; and a
\* call on the annotated path the previous call returned does not raise.
C10_InputNeverWritten ==
    [][ /\ \A p \in Paths :
             files'[p] # files[p] => (p = OutputPath(call'.path) /\ p # call'.path)
        /\ (call.called /\ call.ret = OutputPath(call.path) /\ call'.path = call.ret)
             => call'.exc = "none" ]_vars

C10_Witness ==
    /\ Constructed
    /\ Len(call.path.name) = 2
    /\ files[call.path].kind = "image"
    /\ call.ret = OutputPath(call.path)
    /\ call.wrote = call.ret
    /\ files[call.ret].kind = "image"

\* The call got past both early returns of annotate_chart.
CallPrice(op) == ParsePrice(call.payload[op])
CallPrices == ValidPrices(CallPrice("entry"), CallPrice("sl"), CallPrice("tp"))
Rendered ==
    /\ Constructed
    /\ ~NothingToAnnotate(CallPrice("entry"), CallPrice("sl"))
    /\ CallPrices # {}

LineOps == {"entry", "sl", "tp"}
StepRank == [summary |-> 1, entry |-> 2, sl |-> 3, tp |-> 4, save |-> 5]
LineOffset == [entry |-> 0, sl |-> 30, tp |-> 60]
Drawn(op) == \E i \in DOMAIN call.steps : call.steps[i].op = op

\* The row _price_to_y_position gives the price of a line of the call.
WorkingMin == 98 * SetMin(CallPrices)
WorkingMax == 102 * SetMax(CallPrices)
MappedY(op) ==
    PriceToYPosition(files[call.path].height, 100 * CallPrice(op), WorkingMin, WorkingMax)

\* C21: in a call that reaches rendering the steps are taken in the order
\* summary box, entry line, stop line, target line, save; the summary box is
\* drawn only when the payload's error is not set; a line is drawn iff its
\* price parsed above zero (up to the step at which the imaging library
\* raised, if it did); the lines sit 0, 30 and 60 rows below the mapped row;
\* the file is saved only after every line was drawn.
C21_StepsInOrder ==
    Rendered
        => /\ \A i, j \in DOMAIN call.steps :
                  i < j => StepRank[call.steps[i].op] < StepRank[call.steps[j].op]
           /\ Drawn("summary") => ~call.payload.error
           /\ (~call.payload.error /\ "summary" \notin call.failed) => Drawn("summary")
           /\ \A op \in LineOps : Drawn(op) => CallPrice(op) > 0
           /\ call.failed \subseteq {"summary"}
                  => \A op \in LineOps : CallPrice(op) > 0 => Drawn(op)
           /\ \A i \in DOMAIN call.steps :
                  call.steps[i].op \in LineOps
                      => call.steps[i].row - MappedY(call.steps[i].op)
                             = LineOffset[call.steps[i].op]
           /\ Drawn("save") <=> call.ret = OutputPath(call.path)
           /\ Drawn("save")
                  => /\ call.steps[Len(call.steps)].op = "save"
                     /\ \A op \in LineOps : CallPrice(op) > 0 => Drawn(op)

C21_Witness ==
    /\ Rendered
    /\ Len(call.steps) = 5
    /\ call.steps[1].op = "summary"
    /\ call.steps[2].op = "entry"
    /\ call.steps[3].op = "sl"
    /\ call.steps[4].op = "tp"
    /\ call.steps[5].op = "save"
    /\ call.steps[3].row = MappedY("sl") + 30
    /\ call.steps[4].row = MappedY("tp") + 60

\* C22: the working range is [0.98 * min(P), 1.02 * max(P)] for the set P of
\* the entry, stop and target prices that parsed above zero.  When P is empty
\* the input path is returned and nothing is drawn; otherwise the lower end
\* is below the upper end, every price drawn lies strictly between them, and
\* every line is placed by mapping its price over that range.
C22_PaddedRange ==
    /\ (Constructed /\ CallPrices = {}) => (call.ret = call.path /\ call.steps = <<>>)
    /\ Rendered
          => /\ WorkingMin < WorkingMax
             /\ \A p \in CallPrices : WorkingMin < 100 * p /\ 100 * p < WorkingMax
             /\ \A i \in DOMAIN call.steps :
                    call.steps[i].op \in LineOps
                        => /\ CallPrice(call.steps[i].op) \in CallPrices
                           /\ call.steps[i].row
                                  = MappedY(call.steps[i].op) + LineOffset[call.steps[i].op]

C22_Witness ==
    /\ Rendered
    /\ CallPrices = {10000, 105050}
    /\ files[call.path].height = 200
    /\ Drawn("entry")
    /\ Drawn("sl")
    /\ Drawn("save")
    /\ CallPrice("sl") = 105050
    /\ MappedY("sl") = 14

RowOf(op) == call.steps[CHOOSE i \in DOMAIN call.steps : call.steps[i].op = op].row

\* C23: for every payload and image height, the row of the stop line (its
\* mapped row + 30) and the row of the target line (its mapped row + 60) both
\* differ from the row of the entry line (its mapped row + 0).
C23_OffsetRowsDifferFromEntry ==
    (Rendered /\ Drawn("entry"))
        => \A op \in {"sl", "tp"} : Drawn(op) => RowOf(op) # RowOf("entry")

\* C28: every row at which a line is drawn (the clamped mapped row plus the
\* offset 0, 30 or 60) is a row of the image: 0 <= row < height.
C28_RowsOnCanvas ==
    Rendered
        => \A i \in DOMAIN call.steps :
               call.steps[i].op \in LineOps
                   => /\ 0 <= call.steps[i].row
                      /\ call.steps[i].row < files[call.path].height

----------------------------------------------------------------------------
(* The leverage recommendation's claims.                                   *)

Leverage == rec.out.recommended_leverage

\* C11: for a fixed volatility level and risk level the recommended leverage
\* does not decrease when the confidence grows, and it is at most 100.
C11_MonotoneAndCapped ==
    rec.called
        => /\ \A c2 \in Confidences :
                 rec.confidence <= c2
                     => RLe(Leverage,
                            RecommendLeverage(c2, rec.volatility,
                                              rec.risk_level).recommended_leverage)
           /\ RLe(Leverage, RInt(100))

C11_Witness ==
    /\ rec.called
    /\ rec.confidence = 55
    /\ RLess(Leverage,
             RecommendLeverage(95, rec.volatility, rec.risk_level).recommended_leverage)

WarningLines == {HighLine, VeryHighLine, VolatileLine}
LinesIn(warning) == {warning[i] : i \in 1 .. Len(warning)}

\* The condition under which a line belongs to the warning.
LineHolds(line) ==
    CASE line = HighLine -> RLess(RInt(20), Leverage)
      [] line = VeryHighLine -> RLess(RInt(50), Leverage)
      [] line = VolatileLine -> rec.volatility = "HIGH"
      [] line = AppropriateLine ->
             /\ ~RLess(RInt(20), Leverage)
             /\ ~RLess(RInt(50), Leverage)
             /\ rec.volatility # "HIGH"

\* C12 (as stated): some confidence, volatility level and risk level make
\* recommend_leverage return a warning with more than one of the three warning
\* lines, and a returned warning holds the line of every condition that holds.
C12_WarningsCoOccur ==
    /\ \E c \in Confidences, v \in VolatilityLevels, r \in RiskLevels :
           Cardinality(LinesIn(RecommendLeverage(c, v, r).warning) \cap WarningLines) > 1
    /\ rec.called
           => \A line \in WarningLines :
                  LineHolds(line) => line \in LinesIn(rec.out.warning)

\* C12 (amended): a returned warning holds the line of every condition that
\* holds, but no input makes two conditions hold: the leverage is at most 39,
\* and at most 13 when the volatility is HIGH, so the warning of
\* recommend_leverage always has exactly one line.
C12_OneWarningLine ==
    rec.called
        => /\ \A line \in WarningLines :
                  LineHolds(line) => line \in LinesIn(rec.out.warning)
           /\ Len(rec.out.warning) = 1
           /\ RLe(Leverage, RInt(39))
           /\ rec.volatility = "HIGH" => RLe(Leverage, RInt(13))

C12_Witness ==
    /\ rec.called
    /\ rec.volatility = "LOW"
    /\ Leverage = RInt(39)
    /\ rec.out.warning = <<HighLine>>

\* C13: the warning is never empty; it lists, in the order leverage > 20,
\* leverage > 50, volatility HIGH, exactly the lines whose condition holds,
\* and it is the single affirmation exactly when none of the three holds.
C13_WarningInOrder ==
    rec.called
        => /\ rec.out.warning # <<>>
           /\ rec.out.warning
                  = SelectSeq(<<HighLine, VeryHighLine, VolatileLine, AppropriateLine>>,
                              LineHolds)

C13_Witness ==
    /\ rec.called
    /\ rec.volatility = "HIGH"
    /\ rec.confidence = 95
    /\ rec.out.warning = <<VolatileLine>>

\* The tables of the claim, in tenths for the multipliers.
BaseOf(confidence) ==
    CASE confidence >= 90 -> 20
      [] confidence >= 80 /\ confidence < 90 -> 15
      [] confidence >= 70 /\ confidence < 80 -> 10
      [] confidence >= 60 /\ confidence < 70 -> 5
      [] confidence >= 50 /\ confidence < 60 -> 3
      [] confidence < 50 -> 1
VolatilityTenths == [LOW |-> 15, MEDIUM |-> 10, HIGH |-> 5]
RiskTenths == [CONSERVATIVE |-> 7, MODERATE |-> 10, AGGRESSIVE |-> 13]

\* C14: recommended_leverage = min(base * volatility_mult * risk_mult, 100)
\* with base, volatility_mult and risk_mult as tabulated.
C14_LeverageFormula ==
    rec.called
        => Leverage.n * 100
               = Leverage.d * Min2(BaseOf(rec.confidence)
                                       * VolatilityTenths[rec.volatility]
                                       * RiskTenths[rec.risk_level],
                                   100 * 100)

C14_Witness ==
    /\ rec.called
    /\ rec.confidence = 70
    /\ rec.volatility = "LOW"
    /\ rec.risk_level = "CONSERVATIVE"
    /\ Leverage = Rat(105, 10)

\* C27: for every input the recommended leverage lies between the configured
\* min_leverage (1) and max_leverage (100).
C27_LeverageWithinConfiguredBounds ==
    rec.called => /\ RLe(RInt(MinLeverage), Leverage)
                  /\ RLe(Leverage, RInt(MaxLeverage))

----------------------------------------------------------------------------
(* The payload validation's claims.                                        *)

\* A value that reads as a number of at least lo and at most hi hundredths.
NumberWithin(v, lo, hi) ==
    /\ v.t \in {"str", "num"}
    /\ PyFloat(Without(v.s, ",")).ok
    /\ lo <= PyFloat(Without(v.s, ",")).value
    /\ PyFloat(Without(v.s, ",")).value <= hi

WellFormed(result) ==
    /\ \A field \in RequiredFields : result[field] # Missing
    /\ \A field \in {"entry", "sl", "tp"} : NumberWithin(result[field], 1, 100000000)
    /\ PyInt(Without(PyStr(result["confidence"]), "%")).ok
    /\ PyInt(Without(PyStr(result["confidence"]), "%")).value \in 0 .. 100

\* C18: a payload with every required field, positive entry, sl and tp and a
\* confidence in [0,100] is accepted whatever its leverage_recommendation;
\* afterwards it has leverage_recommendation only if that is a number in
\* [1,100], and every other field is unchanged.
C18_LeverageKeptOnlyInRange ==
    (valid.called /\ WellFormed(valid.payload))
        => /\ valid.out.ret
           /\ valid.out.result[LeverageField] # Missing
                  => /\ NumberWithin(valid.payload[LeverageField], 100, 10000)
                     /\ valid.out.result[LeverageField] = valid.payload[LeverageField]
           /\ \A field \in RequiredFields :
                  valid.out.result[field] = valid.payload[field]

----------------------------------------------------------------------------
(* The concurrent calls' claims.                                           *)

\* C19: two calls running concurrently on different source paths never write
\* to the same output path, so neither overwrites the other's output file.
C19_DifferentSourcesDifferentOutputs ==
    \A g \in Handlers, h \in Handlers :
        (/\ g # h
         /\ jobs[g].pc # "idle"
         /\ jobs[h].pc # "idle"
         /\ jobs[g].path # jobs[h].path
         /\ jobs[g].wrote # NoPath
         /\ jobs[h].wrote # NoPath)
            => jobs[g].wrote # jobs[h].wrote

----------------------------------------------------------------------------
(* The text handler's claims.                                              *)

\* The documented message: the command, then balance, entry, stop and risk
\* percent and optionally the leverage, all numeric, with entry # stop.
Documented(words) ==
    /\ Len(words) \in {6, 7}
    /\ words[1] = Word1
    /\ words[2] = Word2
    /\ \A i \in 3 .. Len(words) : PyFloat(words[i]).ok
    /\ PyFloat(words[4]).value # PyFloat(words[5]).value

\* C20: a message in the documented format is answered with the position
\* calculation for its balance, entry, stop, risk percent and leverage
\* (1 when omitted), not with a format or invalid-number error.
C20_DocumentedFormatIsCalculated ==
    (chat.called /\ Documented(chat.text))
        => /\ chat.reply.kind = "calculation"
           /\ chat.reply.calc.account_balance = UnitsOf(chat.text[3])
           /\ chat.reply.calc.entry_price = UnitsOf(chat.text[4])
           /\ chat.reply.calc.stop_loss = UnitsOf(chat.text[5])
           /\ chat.reply.calc.risk_percent = UnitsOf(chat.text[6])
           /\ chat.reply.calc.leverage
                  = IF Len(chat.text) = 7 THEN UnitsOf(chat.text[7]) ELSE 1

----------------------------------------------------------------------------
(* The claims on the summary box and the chat text.                        *)

\* The header the bias stands for: Long or Short when it is that word in
\* any case, Range for every other value.
HeaderOf(bias) == IF bias.t = "str" THEN Direction(Lower(bias.s)) ELSE "RANGE"

\* C24: the bias is matched case-insensitively and every other value (an
\* unrecognised string, a missing field, a non-string) gives Range: the
\* summary box is drawn and the chat text is built without raising, and both
\* show the header the bias stands for.
C24_BiasFallsBackToRange ==
    sig.called
        => /\ sig.box.drawn
           /\ sig.box.header = HeaderOf(sig.payload.bias)
           /\ sig.text.exc = "none"
           /\ sig.text.header = HeaderOf(sig.payload.bias)

\* C25: the text colour of the summary box and that of the line labels both
\* follow the detected theme: an image of the other theme gets another
\* colour.
C25_TextColoursFollowTheme ==
    sig.called
        => /\ sig.label_color = LabelTextColor(sig.dark)
           /\ sig.label_color # LabelTextColor(~sig.dark)
           /\ sig.box.drawn
                  => /\ sig.box.text_color = BoxTextColor(sig.dark)
                     /\ sig.box.text_color # BoxTextColor(~sig.dark)

\* C29: whenever the box is drawn and the chat text is built, their RR
\* labels agree: the same ratio when the risk is positive, and "RR -" in
\* both when it is not, when the bias is Range or when a price is not a
\* number.
C29_RRLabelsAgree ==
    (sig.called /\ sig.box.drawn /\ sig.text.exc = "none")
        => /\ sig.box.rr = sig.text.rr
           /\ sig.box.rr.kind \in {"none", "float"}

----------------------------------------------------------------------------
(* The claims on the photo handler.                                        *)

\* C26: however handle_chart ends (validation failure, error payload,
\* annotation returning the original path, annotation or send raising, full
\* success), neither the downloaded file nor an annotated file written
\* during the call remains on disk.
C26_NoFileLeftBehind ==
    chart.called => \A p \in Paths : files[p] = Absent

====
